---- MODULE Spec2Model ----
(***************************************************************************)
(* Model of the Binance -> Polymarket arbitrage bot (bot/index.js) and of  *)
(* the live monitor of scripts/binance-poly-arb.js.                        *)
(*                                                                         *)
(* Units: time in milliseconds (Date.now()), BTC prices in whole dollars,  *)
(* venue prices (asks, bids, outcome prices) in cents, money in cents.     *)
(* Every await of the source is a suspension point: one action runs a      *)
(* handler from one await to the next, as the Node event loop does.        *)
(***************************************************************************)
EXTENDS Integers, Sequences, FiniteSets, TLC

VARIABLES
    now,            \* Date.now()
    CONFIG,         \* bot/index.js CONFIG (the fields read from the environment)
    clobClient,     \* bot/index.js clobClient: TRUE when a client was set up
    btcPrices,      \* rolling window of recent prices
    lastSpikeTime,  \* debounce stamp of detectSpike
    currentMarket,  \* cached market: {} (null) or {market}
    marketCacheTime,
    openTrades,
    tradeHistory,
    venueOrders,    \* number of orders the venue has accepted (feeds the order ids)
    ws,             \* the WebSocket of connect(): state, url index, lastStatusTime
    wsIndex,
    reconnectAt,    \* pending setTimeout(connect, 2000): {} or {due time}
    pollAt,         \* next firing of the setInterval of main()
    handlers,       \* suspended ws.on("message") invocations, in arrival order
    pollers,        \* suspended checkOpenTrades() runs
    steps,          \* clock advances so far (bounds the exploration)
    mon,            \* the live monitor (runLiveMonitor) of scripts/binance-poly-arb.js
    sim,            \* the trades of simulate() of scripts/sim-real-orderbook.js
    wait,           \* a run of pollResult() or waitForResolution()
    position,       \* the position of the exit state machine (strategy, spec section 4)
    windows,        \* the market registry of the strategy (spec sections 3, 4.B, 4.C)
    dash,           \* the dashboard's App component: its socket and reconnect timer
    fed             \* ticks of the recorded stream delivered so far (replay)

vars == <<now, CONFIG, clobClient, btcPrices, lastSpikeTime, currentMarket,
          marketCacheTime, openTrades, tradeHistory, venueOrders, ws, wsIndex,
          reconnectAt, pollAt, handlers, pollers, steps, mon, sim, wait, position, windows, dash, fed>>

botVars == <<CONFIG, clobClient, btcPrices, lastSpikeTime, currentMarket,
             marketCacheTime, openTrades, tradeHistory, venueOrders, ws, wsIndex,
             reconnectAt, pollAt, handlers, pollers>>

----------------------------------------------------------------------------
(* Bounds of the model *)

MaxSteps == 3           \* clock advances explored (Spec)
MaxBuf == 3             \* ticks delivered per 10-second rolling window
MaxHandlers == 1        \* message handlers suspended at the same time (Spec)
RaceSteps == 7          \* clock advances explored (SpecRace)
RaceHandlers == 2       \* message handlers suspended at the same time (SpecRace)
BuySteps == 1           \* clock advances explored (SpecBuy)
MaxAsk == 99            \* best asks 1..MaxAsk cents (SpecBuy)
MaxPolls == 3           \* runs of the live monitor's poll() (SpecMonitor)
MaxMarkets == 2         \* markets simulate() loops over
SettleSteps == 3        \* clock advances explored (SpecPnl)
MaxEvals == 4           \* exit evaluations of the strategy's position (SpecExit)
MaxPollers == 1         \* checkOpenTrades runs suspended at the same time
ReplaySteps == 2        \* clock advances explored (SpecReplay)
OverlapPollers == 2     \* checkOpenTrades runs suspended at the same time (SpecOverlap)
OverlapSteps == 10      \* clock advances explored (SpecOverlap)
OverlapTrades == 5      \* positions open at the start (SpecOverlap)
MaxDisconnects == 1     \* socket closes explored
WinSteps == 4           \* clock advances explored (SpecWindows)
MaxSockets == 3         \* sockets the dashboard opens (SpecDash)
FeedSteps == 2          \* clock advances explored while the feed is up (SpecFeed)
SpikeSteps == 2         \* clock advances explored (SpecSpike)
SpikeBuf == 4           \* ticks delivered per 10-second rolling window (SpecSpike)

StartTimes == {868000}          \* 32 s before the end of the window that started at 600000
Deltas == {2000, 8000}          \* clock advances
Prices == {10000, 10010}        \* BTC ticks: 10000 -> 10010 is a spike of exactly 0.10 %
BookAsks == {51, 61}            \* best asks the book answers with
UpPrices == {1, 50, 99}         \* outcome prices of Up the venue reports
MonPrices == {10000, 10003, 10010}  \* BTC prices the monitor polls (0.03 % = 3 on 10000)
MonAsks == {51, 60, 61}         \* best asks the monitor reads
MonBids == {25, 56, 66}         \* best bids the monitor reads
MonLatencies == {0, 15000}      \* time the awaits of one poll() take
LiveBids == {56, 66}            \* best bids of a listed market (SpecMonitorLive)
WinDeltas == {5000, 300000, 900000}  \* clock advances of the registry's runs
WaitUps == {5, 8, 50, 92, 95, 96}   \* outcome prices of Up a resolution wait reads
WaitLatencies == {0, 5000}      \* time getMarket takes (its timeout is 5000)
SpikePrices == {10000, 10010, 10011}     \* BTC prices 0.1 % and 0.11 % apart
SpikeMonPrices == {10000, 10003, 10004}  \* BTC prices 0.03 % and 0.04 % apart
ExitAsks == {30, 50}            \* best asks the exits are measured from
ExitBids == {15, 25, 32, 33, 54, 55}   \* best bids at and next to -50 % and +10 %
SimEntries == {49, 51}          \* decision.entry of the strategies of sim-real-orderbook.js
SettleAsks == {40, 51}          \* best asks the book answers with (SpecPnl)
PosEntries == {40}              \* entry price of the strategy's position
PosBids == {30, 33, 36, 38, 42, 44, 46, 48}  \* best bids: -25 % ... +20 % of 40

----------------------------------------------------------------------------
(* Program constants *)

spikeThresholdBp == 10      \* CONFIG.spikeThreshold 0.10 %, in hundredths of a percent
tradeSize == 100            \* CONFIG.tradeSize, dollars
maxOpenTrades == 3          \* CONFIG.maxOpenTrades
stopLossPct == 20           \* CONFIG.stopLossPct, read nowhere in the bot
MarketCacheMs == 30000
GammaTimeout == 3000
BookTimeout == 2000
WindowMs == 300000          \* 5-minute windows: slug ts steps of 300 s
MinSecsLeftMs == 30000      \* "Must have >30 sec left"
DefaultAsk == 51            \* let bestAsk = 0.51
MaxEntryAsk == 60           \* if (bestAsk > 0.60)
RollingMs == 10000
RecentMs == 2000
OlderFromMs == 4000
OlderToMs == 1500
DebounceMs == 10000
StatusEveryMs == 10000
ReconnectMs == 2000
PollEveryMs == 15000
NumUrls == 2                \* BINANCE_WS_URLS.length
monSpikeThresholdBp == 3    \* scripts/binance-poly-arb.js CONFIG.spikeThreshold 0.03 %
monTakeProfitPct == 10
monStopLossPct == -50
monTradeSize == 100
monMaxOpenTrades == 4
monFeePct == 2
monMaxAsk == 60             \* if (ask && ask < 0.60)
monPollIntervalMs == 1000
monEndpoints == 2           \* BINANCE_ENDPOINTS.length
simFeePct == 2              \* scripts/sim-real-orderbook.js FEE 0.02
simTradeSize == 100         \* TRADE_SIZE
simAsk == 51                \* const ASK = 0.51
pollResultTimeoutMs == 600000       \* pollResult(slug, 10 * 60 * 1000)
pollResultSleepMs == 10000
waitForResolutionMaxWaitMs == 900000   \* waitForResolution(slug, 15 * 60 * 1000)
waitForResolutionSleepMs == 15000
PROFIT_TARGET_PCT == 10     \* the strategy's exit configuration (spec section 6)
MOONBAG_PCT == 20
DRAWDOWN_TRIGGER_PCT == -15
PROTECTION_EXIT_PCT == -10
HARD_STOP_PCT == -25
MAX_POSITION_USDC == 100
FEE_RATE_PCT == 2
SETTLE_MS == 10000          \* settle_seconds
RESOLUTION_GRACE_MS == 900000
LOOKAHEAD_MS == 1800000

Abs(x) == IF x < 0 THEN -x ELSE x

----------------------------------------------------------------------------
(* detectSpike(price) at time t over the buffer bt and debounce stamp lst.  *)
(* Returns the new buffer, the new stamp and the spike ({} for null).       *)

\* detectSpike without the debounce
detectSpike_NoDebounce(bt, lst, price, t) ==
    LET pushed == Append(bt, [price |-> price, time |-> t])
        kept == SelectSeq(pushed, LAMBDA p : p.time > t - RollingMs)
        recent == SelectSeq(kept, LAMBDA p : p.time > t - RecentMs)
        older == SelectSeq(kept, LAMBDA p : p.time > t - OlderFromMs /\ p.time < t - OlderToMs)
        none == [bt |-> kept, lst |-> lst, spike |-> {}]
    IN  IF Len(kept) < 3 THEN none
        ELSE IF Len(recent) = 0 \/ Len(older) = 0 THEN none
        ELSE LET currentPrice == recent[Len(recent)].price
                 oldPrice == older[1].price
             IN  IF Abs(currentPrice - oldPrice) * 10000 >= spikeThresholdBp * oldPrice
                 THEN IF FALSE THEN none
                      ELSE [bt |-> kept, lst |-> t,
                            spike |-> {[direction |-> IF currentPrice > oldPrice THEN "UP" ELSE "DOWN",
                                        price |-> currentPrice, oldPrice |-> oldPrice]}]
                 ELSE none

\* detectSpike signalling every change of the price
detectSpike_AnyMove(bt, lst, price, t) ==
    LET pushed == Append(bt, [price |-> price, time |-> t])
        kept == SelectSeq(pushed, LAMBDA p : p.time > t - RollingMs)
        recent == SelectSeq(kept, LAMBDA p : p.time > t - RecentMs)
        older == SelectSeq(kept, LAMBDA p : p.time > t - OlderFromMs /\ p.time < t - OlderToMs)
        none == [bt |-> kept, lst |-> lst, spike |-> {}]
    IN  IF Len(kept) < 3 THEN none
        ELSE IF Len(recent) = 0 \/ Len(older) = 0 THEN none
        ELSE LET currentPrice == recent[Len(recent)].price
                 oldPrice == older[1].price
             IN  IF currentPrice # oldPrice
                 THEN IF t - lst < DebounceMs THEN none
                      ELSE [bt |-> kept, lst |-> t,
                            spike |-> {[direction |-> IF currentPrice > oldPrice THEN "UP" ELSE "DOWN",
                                        price |-> currentPrice, oldPrice |-> oldPrice]}]
                 ELSE none

detectSpike(bt, lst, price, t) ==
    LET pushed == Append(bt, [price |-> price, time |-> t])
        kept == SelectSeq(pushed, LAMBDA p : p.time > t - RollingMs)
        recent == SelectSeq(kept, LAMBDA p : p.time > t - RecentMs)
        older == SelectSeq(kept, LAMBDA p : p.time > t - OlderFromMs /\ p.time < t - OlderToMs)
        none == [bt |-> kept, lst |-> lst, spike |-> {}]
    IN  IF Len(kept) < 3 THEN none
        ELSE IF Len(recent) = 0 \/ Len(older) = 0 THEN none
        ELSE LET currentPrice == recent[Len(recent)].price
                 oldPrice == older[1].price
             IN  IF Abs(currentPrice - oldPrice) * 10000 >= spikeThresholdBp * oldPrice
                 THEN IF t - lst < DebounceMs THEN none
                      ELSE [bt |-> kept, lst |-> t,
                            spike |-> {[direction |-> IF currentPrice > oldPrice THEN "UP" ELSE "DOWN",
                                        price |-> currentPrice, oldPrice |-> oldPrice]}]
                 ELSE none

----------------------------------------------------------------------------
(* The venue, as the bot sees it *)

\* Answers of GET /markets?slug=...: a failure, an empty list, or a market
\* (question tells whether the record has its question field)
GammaResponses(slug, kinds, ups) ==
    {[kind |-> k, up |-> 0, tokens |-> 0, endDate |-> 0, question |-> TRUE] :
        k \in kinds \ {"market"}}
    \cup {[kind |-> "market", up |-> u, tokens |-> 2, endDate |-> slug + WindowMs,
            question |-> TRUE] : u \in IF "market" \in kinds THEN ups ELSE {}}

\* what the code computes from a field that is missing: up is null without
\* outcomePrices, new Date(undefined) - Date.now() is NaN
Null == -1
NaN == -2

\* Market records with a required field missing or unparsable: no question,
\* no outcomePrices, no clobTokenIds, no endDate, and a field JSON.parse() rejects
MalformedMarkets(slug) ==
    LET ok == [kind |-> "market", up |-> 50, tokens |-> 2, endDate |-> slug + WindowMs,
               question |-> TRUE]
    IN  {[ok EXCEPT !.question = FALSE], [ok EXCEPT !.up = Null], [ok EXCEPT !.tokens = 0],
         [ok EXCEPT !.endDate = NaN], [ok EXCEPT !.kind = "badJson"]}

GammaKinds == {"error", "empty", "market"}

\* Answers of GET /book: a failure, a book without asks, or the best ask
BookResponses(asks) ==
    {[kind |-> "error", ask |-> 0], [kind |-> "empty", ask |-> 0]}
    \cup {[kind |-> "asks", ask |-> a] : a \in asks}

----------------------------------------------------------------------------
(* The handler of ws.on("message"), cut at its awaits.  s is the module    *)
(* state the handler reads and writes, h the handler's locals; the result  *)
(* is the new state and the handler suspended at its next await ({} when   *)
(* it has returned).                                                       *)

Done(s) == [s |-> s, h |-> {}]
Wait(s, h) == [s |-> s, h |-> {h}]

\* the locals a handler still reads once suspended at pc (the others are dead)
Locals(pc, price, dir, ts, last, since, slug, bestAsk, conn) ==
    [pc |-> pc, price |-> price, dir |-> dir, ts |-> ts, last |-> last, since |-> since,
     slug |-> slug, bestAsk |-> bestAsk, conn |-> conn]

\* placeSellOrder(trade), up to its await
placeSellOrder(s, h, trade, t) ==
    IF ~clobClient \/ trade.dryRun THEN Done(s)
    ELSE Wait(s, Locals("sell", 0, "-", 0, 0, 0, 0, 0, 0))

\* if (trade) { openTrades.push(trade); if (!holdToResolution) await placeSellOrder }
afterBuy(s, h, trade, t) ==
    LET s1 == [s EXCEPT !.openTrades = Append(@, trade)]
    IN  IF ~CONFIG.holdToResolution THEN placeSellOrder(s1, h, trade, t) ELSE Done(s1)

\* the share count rounded up instead of down
Shares_RoundUp(bestAsk) == (tradeSize * 100 + bestAsk - 1) \div bestAsk

Shares(bestAsk) == (tradeSize * 100) \div bestAsk

MakeTrade(h, bestAsk, id, dry) ==
    [orderId |-> id, side |-> h.dir, entry |-> bestAsk, shares |-> Shares(bestAsk),
     spent |-> Shares(bestAsk) * bestAsk, slug |-> h.slug, dryRun |-> dry]

\* placeBuyOrder without its dry-run branch
placeBuyOrder_NoDryRun(s, h, r, t) ==
    LET bestAsk == IF r.kind = "asks" THEN r.ask ELSE DefaultAsk
    IN  IF bestAsk > MaxEntryAsk THEN Done(s)
        ELSE Wait(s, Locals("order", 0, h.dir, 0, 0, 0, h.slug, bestAsk, 0))

\* placeBuyOrder after the book answered r
placeBuyOrder(s, h, r, t) ==
    LET bestAsk == IF r.kind = "asks" THEN r.ask ELSE DefaultAsk
    IN  IF bestAsk > MaxEntryAsk THEN Done(s)
        ELSE IF ~clobClient
             THEN afterBuy(s, h, MakeTrade(h, bestAsk, <<"dry-run", t>>, TRUE), t)
             ELSE Wait(s, Locals("order", 0, h.dir, 0, 0, 0, h.slug, bestAsk, 0))

\* createAndPlaceOrder answered: accepted or rejected (throws)
afterOrder(s, h, accepted, t) ==
    IF accepted
    THEN LET s1 == [s EXCEPT !.venueOrders = @ + 1]
         IN  afterBuy(s1, h, MakeTrade(h, h.bestAsk, <<"order", s1.venueOrders>>, FALSE), t)
    ELSE Done(s)

\* const market = await findActiveMarket() has returned mkt ({} for null)
afterFind(s, h, mkt, t) ==
    IF mkt = {} THEN Done(s)
    ELSE LET m == CHOOSE x \in mkt : TRUE
         IN  IF m.secsLeft < MinSecsLeftMs THEN Done(s)
             ELSE Wait(s, Locals("book", 0, h.dir, 0, 0, t, m.slug, 0, 0))

CacheValid(s, t) == s.currentMarket # {} /\ t - s.marketCacheTime < MarketCacheMs

Base(t) == (t \div WindowMs) * WindowMs

\* findActiveMarket() up to its first await: the cached market, or the first request
StartFind(h, pc, t) ==
    Locals(pc, IF pc = "status" THEN h.price ELSE 0, h.dir, Base(t) - WindowMs,
           Base(t) + 2 * WindowMs, t, 0, 0, IF pc = "status" THEN h.conn ELSE 0)

\* the handler from "Detect spike" on
onTick(s, h, t) ==
    LET d == detectSpike(s.btcPrices, s.lastSpikeTime, h.price, t)
        s1 == [s EXCEPT !.btcPrices = d.bt, !.lastSpikeTime = d.lst]
    IN  IF d.spike = {} THEN Done(s1)
        ELSE IF Len(s1.openTrades) >= maxOpenTrades THEN Done(s1)
        ELSE LET h1 == [h EXCEPT !.dir = (CHOOSE x \in d.spike : TRUE).direction]
             IN  IF CacheValid(s1, t) THEN afterFind(s1, h1, s1.currentMarket, t)
                 ELSE Wait(s1, StartFind(h1, "find", t))

\* the status update has its market mkt ({} for null): mkt.question.split()
\* throws on a market without question and the handler's catch ends it there;
\* else lastStatusTime = Date.now() (a local of connect())
afterStatus(s, h, mkt, t) ==
    IF \E m \in mkt : ~m.question THEN Done(s)
    ELSE onTick([s EXCEPT !.lastStatusTime = IF h.conn = s.conn THEN t ELSE @], h, t)

\* one market qualifies: "Must have >30 sec left, not resolved, have tokens"
Tradable(m, t) ==
    /\ m.kind = "market"
    /\ m.up # Null /\ m.up > 5 /\ m.up < 95
    /\ m.endDate # NaN /\ m.endDate - t > MinSecsLeftMs
    /\ m.tokens >= 2

\* findActiveMarket() returned mkt to the handler suspended at h.pc
findReturn(s, h, mkt, t) ==
    IF h.pc = "status" THEN afterStatus(s, h, mkt, t) ELSE afterFind(s, h, mkt, t)

\* one iteration of the slug loop of findActiveMarket(): the venue answered m
findStep(s, h, m, t) ==
    IF Tradable(m, t)
    THEN LET mk == [slug |-> h.ts, secsLeft |-> m.endDate - t, question |-> m.question]
             s1 == [s EXCEPT !.currentMarket = {mk}, !.marketCacheTime = t]
         IN  findReturn(s1, h, {mk}, t)
    ELSE IF h.ts + WindowMs <= h.last
         THEN Wait(s, [h EXCEPT !.ts = @ + WindowMs, !.since = t])
         ELSE findReturn(s, h, {}, t)

\* ws.on("message") from its start
onMessage(s, price, t) ==
    LET h == Locals("new", price, "-", 0, 0, t, 0, 0, s.conn)
    IN  IF t - s.lastStatusTime > StatusEveryMs
        THEN IF CacheValid(s, t) THEN afterStatus(s, h, s.currentMarket, t)
             ELSE Wait(s, StartFind(h, "status", t))
        ELSE onTick(s, h, t)

----------------------------------------------------------------------------
(* The module state as one record, and back *)

State ==
    [btcPrices |-> btcPrices, lastSpikeTime |-> lastSpikeTime,
     currentMarket |-> currentMarket, marketCacheTime |-> marketCacheTime,
     openTrades |-> openTrades, venueOrders |-> venueOrders,
     lastStatusTime |-> ws.lastStatusTime, conn |-> ws.conn]

RemoveAt(seq, i) == SubSeq(seq, 1, i - 1) \o SubSeq(seq, i + 1, Len(seq))

\* the effect of a handler step r on the variables; i = 0 for a new handler
Commit(r, i) ==
    /\ btcPrices' = r.s.btcPrices
    /\ lastSpikeTime' = r.s.lastSpikeTime
    /\ currentMarket' = r.s.currentMarket
    /\ marketCacheTime' = r.s.marketCacheTime
    /\ openTrades' = r.s.openTrades
    /\ venueOrders' = r.s.venueOrders
    /\ ws' = [ws EXCEPT !.lastStatusTime = r.s.lastStatusTime,
                        !.gotTick = @ \/ i = 0]
    /\ handlers' = IF i = 0
                   THEN (IF r.h = {} THEN handlers ELSE Append(handlers, CHOOSE x \in r.h : TRUE))
                   ELSE (IF r.h = {} THEN RemoveAt(handlers, i)
                         ELSE [handlers EXCEPT ![i] = CHOOSE x \in r.h : TRUE])

----------------------------------------------------------------------------
(* checkOpenTrades(), cut at its awaits.  p.i is the loop index (1-based),  *)
(* p.trade the element read before the await.                              *)

\* the loop from index i down: the first index that holds a trade is awaited on;
\* openTrades[i] undefined throws inside the try and the loop goes on
RECURSIVE pollFrom(_, _, _)
pollFrom(ot, i, t) ==
    IF i < 1 THEN {}
    ELSE IF i > Len(ot) THEN pollFrom(ot, i - 1, t)
    ELSE {[i |-> i, trade |-> ot[i], since |-> t]}

Resolved(m) == m.kind = "market" /\ (m.up > 95 \/ m.up < 5)

\* the settlement with the fee taken from the payout instead of the profit
Settle_FeeOnPayout(trade, m) ==
    LET result == IF m.up > 50 THEN "UP" ELSE "DOWN"
        won == trade.side = result
        pnl == IF won THEN trade.shares * 100 * 98 - trade.spent * 100
               ELSE -(trade.spent * 100)
    IN  [trade |-> trade, result |-> result, won |-> won, pnl |-> pnl]

\* the record pushed to tradeHistory; pnl in hundredths of a cent
Settle(trade, m) ==
    LET result == IF m.up > 50 THEN "UP" ELSE "DOWN"
        won == trade.side = result
        pnl == IF won THEN (trade.shares * 100 - trade.spent) * 100
                           - (trade.shares * 100 - trade.spent) * 2
               ELSE -(trade.spent * 100)
    IN  [trade |-> trade, result |-> result, won |-> won, pnl |-> pnl]

\* splice(i, 1)
Splice(seq, i) == IF i > Len(seq) THEN seq ELSE RemoveAt(seq, i)

----------------------------------------------------------------------------
(* Initial state: main() has run setupClobClient() and connectBinance()    *)

Configs ==
    {[privateKey |-> k, holdToResolution |-> hold] : k \in BOOLEAN, hold \in BOOLEAN}

\* simulate() before its loop: i is the index of the next market
SimInit == [i |-> 0, trades |-> <<>>]

\* no resolution wait has been started; up is the local of the loop's last
\* turn (-1 for null), result "" while the function has not returned
NoWait == [fn |-> "", pc |-> "", start |-> 0, up |-> -1, result |-> ""]

\* no position is held by the strategy
NoPosition ==
    [mode |-> "none", entry |-> 0, shares |-> 0, bid |-> 0, peak |-> 0, status |-> "",
     pnl |-> 0, evals |-> 0]

\* the registry before its first discovery; pinned is the history of the
\* open prices latched, as <<slug, price>>
NoWindows == [reg |-> {}, pinned |-> {}]

\* the App component mounted by React: the effect has run connect() once
DashInit ==
    [mounted |-> TRUE, ws |-> "connecting", timer |-> FALSE, sockets |-> 1, state |-> FALSE]

\* seen: the locals of the last poll() (isSpike, market, the room left in
\* openTrades, the best ask when the book was read, else 0, and the trades of
\* the exit loop with the best bid read for each)
NotSeen == [isSpike |-> FALSE, market |-> {}, ask |-> 0, room |-> FALSE, evals |-> <<>>]

MonInit ==
    [binanceEndpoint |-> 0, lastPrice |-> 0, openTrades |-> <<>>, tradeLog |-> <<>>,
     tick |-> 0, seen |-> NotSeen]

\* setupClobClient(): null without a private key
setupClobClient(cfg) == cfg.privateKey

Init ==
    /\ now \in StartTimes
    /\ CONFIG \in Configs
    /\ clobClient = setupClobClient(CONFIG)
    /\ btcPrices = <<>>
    /\ lastSpikeTime = 0
    /\ currentMarket = {}
    /\ marketCacheTime = 0
    /\ openTrades = <<>>
    /\ tradeHistory = <<>>
    /\ venueOrders = 0
    /\ ws = [state |-> "connecting", url |-> 0, lastStatusTime |-> 0, conn |-> 0, gotTick |-> FALSE]
    /\ wsIndex = 0
    /\ reconnectAt = {}
    /\ pollAt = now + PollEveryMs
    /\ handlers = <<>>
    /\ pollers = <<>>
    /\ steps = 0
    /\ mon = MonInit
    /\ sim = SimInit
    /\ wait = NoWait
    /\ position = NoPosition
    /\ windows = NoWindows
    /\ dash = DashInit
    /\ fed = 0

----------------------------------------------------------------------------
(* Actions of the bot *)

Timeout(pc) == IF pc \in {"status", "find"} THEN GammaTimeout
               ELSE IF pc = "book" THEN BookTimeout
               ELSE -1      \* createAndPlaceOrder is called without a timeout

Pending(pcs) == Len(SelectSeq(handlers, LAMBDA h : h.pc \in pcs))

\* a GET of the venue is in flight
ReadsPending == Pending({"status", "find", "book"}) > 0 \/ Len(pollers) > 0

\* time passes; a request with a timeout has answered or failed before its deadline.
\* With fastReads the venue answers every GET before the clock moves.
Tick(deltas, maxSteps, fastReads) ==
    /\ steps < maxSteps
    /\ fastReads => ~ReadsPending
    /\ \E d \in deltas :
        /\ \A i \in 1..Len(handlers) :
              Timeout(handlers[i].pc) >= 0 => now + d - handlers[i].since <= Timeout(handlers[i].pc)
        /\ \A k \in 1..Len(pollers) : now + d - pollers[k].since <= GammaTimeout
        /\ now' = now + d
    /\ steps' = steps + 1
    /\ UNCHANGED <<botVars, mon, sim, wait, position, windows, dash, fed>>

\* ws.on("open")
WsOpen ==
    /\ ws.state = "connecting"
    /\ ws' = [ws EXCEPT !.state = "open"]
    /\ UNCHANGED <<now, CONFIG, clobClient, btcPrices, lastSpikeTime, currentMarket,
                   marketCacheTime, openTrades, tradeHistory, venueOrders, wsIndex,
                   reconnectAt, pollAt, handlers, pollers, steps, mon, sim, wait, position, windows, dash, fed>>

InWindow == Len(SelectSeq(btcPrices, LAMBDA p : p.time > now - RollingMs))

\* ws.on("message"): a trade at price arrives
WsMessageOn(prices, maxBuf, maxHandlers, fastReads) ==
    /\ ws.state = "open"
    /\ Len(handlers) < maxHandlers
    /\ fastReads => ~ReadsPending
    /\ InWindow + Pending({"status"}) < maxBuf
    /\ \E price \in prices : Commit(onMessage(State, price, now), 0)
    /\ UNCHANGED <<now, CONFIG, clobClient, tradeHistory, wsIndex, reconnectAt, pollAt,
                   pollers, steps, mon, sim, wait, position, windows, dash, fed>>

WsMessage(maxHandlers, fastReads) == WsMessageOn(Prices, MaxBuf, maxHandlers, fastReads)

\* GET /markets answers a handler inside findActiveMarket()
GammaAnswer(kinds, ups) ==
    /\ \E i \in 1..Len(handlers) :
          /\ handlers[i].pc \in {"status", "find"}
          /\ \E m \in GammaResponses(handlers[i].ts, kinds, ups) :
                Commit(findStep(State, handlers[i], m, now), i)
    /\ UNCHANGED <<now, CONFIG, clobClient, tradeHistory, wsIndex, reconnectAt, pollAt,
                   pollers, steps, mon, sim, wait, position, windows, dash, fed>>

\* GET /markets answers a handler with a malformed market record
MalformedAnswer ==
    /\ \E i \in 1..Len(handlers) :
          /\ handlers[i].pc \in {"status", "find"}
          /\ \E m \in MalformedMarkets(handlers[i].ts) :
                Commit(findStep(State, handlers[i], m, now), i)
    /\ UNCHANGED <<now, CONFIG, clobClient, tradeHistory, wsIndex, reconnectAt, pollAt,
                   pollers, steps, mon, sim, wait, position, windows, dash, fed>>

\* GET /book answers a handler inside placeBuyOrder()
BookAnswer(asks) ==
    /\ \E i \in 1..Len(handlers) :
          /\ handlers[i].pc = "book"
          /\ \E r \in BookResponses(asks) :
                Commit(placeBuyOrder(State, handlers[i], r, now), i)
    /\ UNCHANGED <<now, CONFIG, clobClient, tradeHistory, wsIndex, reconnectAt, pollAt,
                   pollers, steps, mon, sim, wait, position, windows, dash, fed>>

\* createAndPlaceOrder (BUY) answers: accepted, or it throws
OrderAnswer ==
    /\ \E i \in 1..Len(handlers) :
          /\ handlers[i].pc = "order"
          /\ \E accepted \in BOOLEAN :
                Commit(afterOrder(State, handlers[i], accepted, now), i)
    /\ UNCHANGED <<now, CONFIG, clobClient, tradeHistory, wsIndex, reconnectAt, pollAt,
                   pollers, steps, mon, sim, wait, position, windows, dash, fed>>

\* createAndPlaceOrder (SELL) answers; placeSellOrder's result is not used
SellAnswer ==
    /\ \E i \in 1..Len(handlers) :
          /\ handlers[i].pc = "sell"
          /\ Commit(Done(State), i)
    /\ UNCHANGED <<now, CONFIG, clobClient, tradeHistory, wsIndex, reconnectAt, pollAt,
                   pollers, steps, mon, sim, wait, position, windows, dash, fed>>

\* ws.on("error"): wsIndex++, ws.close()
WsError ==
    /\ ws.state \in {"connecting", "open"}
    /\ ws.conn < MaxDisconnects
    /\ wsIndex' = wsIndex + 1
    /\ ws' = [ws EXCEPT !.state = "closing"]
    /\ UNCHANGED <<now, CONFIG, clobClient, btcPrices, lastSpikeTime, currentMarket,
                   marketCacheTime, openTrades, tradeHistory, venueOrders,
                   reconnectAt, pollAt, handlers, pollers, steps, mon, sim, wait, position, windows, dash, fed>>

\* ws.on("close") setting no timer
WsClose_NoTimer ==
    /\ ws.state \in {"connecting", "open", "closing"}
    /\ ws.conn < MaxDisconnects
    /\ ws' = [ws EXCEPT !.state = "closed"]
    /\ reconnectAt' = reconnectAt
    /\ UNCHANGED <<now, CONFIG, clobClient, btcPrices, lastSpikeTime, currentMarket,
                   marketCacheTime, openTrades, tradeHistory, venueOrders, wsIndex,
                   pollAt, handlers, pollers, steps, mon, sim, wait, position, windows, dash, fed>>

\* ws.on("close"): setTimeout(connect, 2000)
WsClose ==
    /\ ws.state \in {"connecting", "open", "closing"}
    /\ ws.conn < MaxDisconnects
    /\ ws' = [ws EXCEPT !.state = "closed"]
    /\ reconnectAt' = {now + ReconnectMs}
    /\ UNCHANGED <<now, CONFIG, clobClient, btcPrices, lastSpikeTime, currentMarket,
                   marketCacheTime, openTrades, tradeHistory, venueOrders, wsIndex,
                   pollAt, handlers, pollers, steps, mon, sim, wait, position, windows, dash, fed>>

\* the reconnect timer fires: connect()
Connect ==
    /\ \E due \in reconnectAt : now >= due
    /\ reconnectAt' = {}
    /\ ws' = [state |-> "connecting", url |-> wsIndex % NumUrls, lastStatusTime |-> 0,
              conn |-> ws.conn + 1, gotTick |-> FALSE]
    /\ UNCHANGED <<now, CONFIG, clobClient, btcPrices, lastSpikeTime, currentMarket,
                   marketCacheTime, openTrades, tradeHistory, venueOrders, wsIndex,
                   pollAt, handlers, pollers, steps, mon, sim, wait, position, windows, dash, fed>>

\* the setInterval of main() fires: if (openTrades.length > 0) await checkOpenTrades()
PollFireOn(maxPollers) ==
    /\ now >= pollAt
    /\ pollAt' = pollAt + PollEveryMs
    /\ LET p == pollFrom(openTrades, Len(openTrades), now)
       IN  /\ p # {} => Len(pollers) < maxPollers
           /\ pollers' = IF p = {} THEN pollers ELSE Append(pollers, CHOOSE x \in p : TRUE)
    /\ UNCHANGED <<now, CONFIG, clobClient, btcPrices, lastSpikeTime, currentMarket,
                   marketCacheTime, openTrades, tradeHistory, venueOrders, ws, wsIndex,
                   reconnectAt, handlers, steps, mon, sim, wait, position, windows, dash, fed>>

PollFire == PollFireOn(MaxPollers)

\* one turn of the loop settling the trade also when the lookup fails
pollStep_SettleOnFail(ot, th, p, m, t) ==
    LET done == Resolved(m) \/ m.kind # "market"
        ot1 == IF done THEN Splice(ot, p.i) ELSE ot
    IN  [openTrades |-> ot1,
         tradeHistory |-> IF done THEN Append(th, Settle(p.trade, m)) ELSE th,
         next |-> pollFrom(ot1, p.i - 1, t)]

\* one turn of the loop of checkOpenTrades() once its lookup has answered m:
\* the lists, and the next await of the run ({} when the loop ends)
pollStep(ot, th, p, m, t) ==
    LET ot1 == IF Resolved(m) THEN Splice(ot, p.i) ELSE ot
    IN  [openTrades |-> ot1,
         tradeHistory |-> IF Resolved(m) THEN Append(th, Settle(p.trade, m)) ELSE th,
         next |-> pollFrom(ot1, p.i - 1, t)]

\* GET /markets answers a checkOpenTrades() run
PollAnswer ==
    /\ \E k \in 1..Len(pollers) :
          LET p == pollers[k] IN
          \E m \in GammaResponses(p.trade.slug, GammaKinds, UpPrices) :
             LET out == pollStep(openTrades, tradeHistory, p, m, now)
             IN  /\ openTrades' = out.openTrades
                 /\ tradeHistory' = out.tradeHistory
                 /\ pollers' = IF out.next = {} THEN RemoveAt(pollers, k)
                               ELSE [pollers EXCEPT ![k] = CHOOSE x \in out.next : TRUE]
    /\ UNCHANGED <<now, CONFIG, clobClient, btcPrices, lastSpikeTime, currentMarket,
                   marketCacheTime, venueOrders, ws, wsIndex, reconnectAt, pollAt,
                   handlers, steps, mon, sim, wait, position, windows, dash, fed>>

----------------------------------------------------------------------------
(* The live monitor: runLiveMonitor() of scripts/binance-poly-arb.js.  Its  *)
(* loop awaits one poll() after the other, so a poll() runs alone.          *)

\* getCurrentMarket(): the first slug of the loop whose market is unresolved, has
\* more than 30 s left and two tokens; resp[k] is the venue's answer for slug k
RECURSIVE getCurrentMarket(_, _, _)
getCurrentMarket(resp, k, t) ==
    IF k > 4 THEN {}
    ELSE LET slug == Base(t) + (k - 2) * WindowMs
             m == resp[k]
         IN  IF /\ m.kind = "market"
                /\ ~(m.up > 95 \/ m.up < 5)
                /\ slug + WindowMs - t > MinSecsLeftMs
                /\ m.tokens >= 2
             THEN {[slug |-> slug, secsLeft |-> slug + WindowMs - t]}
             ELSE getCurrentMarket(resp, k + 1, t)

\* the entry branch of poll(): the trade pushed, if any
monEntry(ot, isSpike, direction, market, ask) ==
    IF isSpike /\ market # {} /\ Len(ot) < monMaxOpenTrades /\ ask # 0 /\ ask < monMaxAsk
    THEN <<[slug |-> (CHOOSE m \in market : TRUE).slug, direction |-> direction,
            entry |-> ask, spent |-> monTradeSize * 100]>>
    ELSE <<>>

\* pnlPct is computed in doubles: shares = tradeSize / entry, currentValue =
\* shares * bid, pnlPct = ((currentValue - spent) / spent) * 100.  Among the
\* prices in whole cents the rounding changes the outcome of a comparison
\* with takeProfitPct or stopLossPct for these <<entry, bid>> only: the gain
\* is -50 and pnlPct is computed as -49.99999999999999
pnlPctRoundedUp == {<<30, 15>>, <<34, 17>>, <<60, 30>>, <<68, 34>>}

\* monExitType taking profit only above the target
monExitType_AboveTarget(trade, bid) ==
    IF bid = 0 THEN ""
    ELSE IF (bid - trade.entry) * 100 > monTakeProfitPct * trade.entry THEN "TAKE_PROFIT"
    ELSE IF /\ (bid - trade.entry) * 100 <= monStopLossPct * trade.entry
            /\ <<trade.entry, bid>> \notin pnlPctRoundedUp
    THEN "STOP_LOSS"
    ELSE ""

\* the exit of one open trade at best bid (0 for no bid): "TAKE_PROFIT",
\* "STOP_LOSS" or "" (stays open).  shares = tradeSize / entry, so
\* pnlPct = (bid - entry) / entry * 100
monExitType(trade, bid) ==
    IF bid = 0 THEN ""
    ELSE IF (bid - trade.entry) * 100 >= monTakeProfitPct * trade.entry THEN "TAKE_PROFIT"
    ELSE IF /\ (bid - trade.entry) * 100 <= monStopLossPct * trade.entry
            /\ <<trade.entry, bid>> \notin pnlPctRoundedUp
    THEN "STOP_LOSS"
    ELSE ""

\* the record pushed to tradeLog; pnl in cents as the fraction num / den
monClosed(trade, bid) ==
    LET type == monExitType(trade, bid)
        gross == trade.spent * (bid - trade.entry)
    IN  [trade |-> trade, exit |-> bid, exitType |-> type,
         pnl |-> [num |-> IF type = "TAKE_PROFIT" THEN gross * (100 - monFeePct) ELSE gross * 100,
                  den |-> trade.entry * 100]]

\* the exit loop of poll(), from index i down; bids[i] is the best bid read for trade i
RECURSIVE monExits(_, _, _, _)
monExits(ot, log, bids, i) ==
    IF i < 1 THEN [openTrades |-> ot, tradeLog |-> log]
    ELSE IF monExitType(ot[i], bids[i]) = "" THEN monExits(ot, log, bids, i - 1)
    ELSE monExits(RemoveAt(ot, i), Append(log, monClosed(ot[i], bids[i])), bids, i - 1)

\* getBTCPrice(): the endpoints it tries, the cached one alone once there is one
monTried(m) == IF m.binanceEndpoint # 0 THEN {m.binanceEndpoint} ELSE 1..monEndpoints

\* the rest of poll() once getBTCPrice() has returned price (0 for null)
pollWith(m, price, resp, ask, bids, t) ==
    IF price = 0 THEN [m EXCEPT !.tick = @ + 1, !.seen = NotSeen]
    ELSE IF m.lastPrice = 0
    THEN [m EXCEPT !.tick = @ + 1, !.lastPrice = price,
                   !.seen = [isSpike |-> FALSE, market |-> getCurrentMarket(resp, 1, t),
                             ask |-> 0, room |-> FALSE, evals |-> <<>>]]
    ELSE LET market == getCurrentMarket(resp, 1, t)
             isSpike == Abs(price - m.lastPrice) * 10000 >= monSpikeThresholdBp * m.lastPrice
             direction == IF price > m.lastPrice THEN "UP" ELSE "DOWN"
             room == Len(m.openTrades) < monMaxOpenTrades
             asked == isSpike /\ market # {} /\ room
             ot == m.openTrades \o monEntry(m.openTrades, isSpike, direction, market, ask)
             out == monExits(ot, m.tradeLog, bids, Len(ot))
         IN  [m EXCEPT !.tick = @ + 1, !.lastPrice = price,
                       !.openTrades = out.openTrades, !.tradeLog = out.tradeLog,
                       !.seen = [isSpike |-> isSpike, market |-> market,
                                 ask |-> IF asked THEN ask ELSE 0, room |-> room,
                                 evals |-> [i \in 1..Len(ot) |-> [trade |-> ot[i], bid |-> bids[i]]]]]

\* one poll(): endpoint url answers with price, or none does (url 0, price 0)
poll(m, url, price, resp, ask, bids, t) ==
    pollWith([m EXCEPT !.binanceEndpoint = IF url # 0 THEN url ELSE @], price, resp, ask, bids, t)

MonGamma == [1..4 -> GammaResponses(0, {"empty", "market"}, {50})]

\* the answers for the four slugs when the venue lists every window
ListedNow == {[k \in 1..4 |-> [kind |-> "market", up |-> 50, tokens |-> 2, endDate |-> 0]]}

\* the loop of runLiveMonitor(): await poll(), then sleep pollIntervalMs; the
\* feeds answer with values of the given sets
MonitorPollOn(prices, gamma, asks, bidSet, maxPolls) ==
    /\ mon.tick < maxPolls
    /\ \E url \in monTried(mon) \cup {0}, resp \in gamma, ask \in asks \cup {0} :
          \E price \in IF url = 0 THEN {0} ELSE prices,
             bids \in [1..Len(mon.openTrades) + 1 -> bidSet \cup {0}] :
              mon' = poll(mon, url, price, resp, ask, bids, now)
    /\ now' = now + monPollIntervalMs
    /\ UNCHANGED <<botVars, steps, sim, wait, position, windows, dash, fed>>

MonitorPoll == MonitorPollOn(MonPrices, MonGamma, MonAsks, MonBids, MaxPolls)

SpecMonitor == Init /\ [][MonitorPoll]_vars

\* the monitor on a listed market whose book moves around its two exit levels
MonitorExits ==
    MonitorPollOn({10000, 10010}, ListedNow, ExitAsks, ExitBids, MaxPolls)

SpecMonExit == Init /\ [][MonitorExits]_vars

\* the window the runs start in, and the moment just after its end
FirstWindow == Base(CHOOSE t \in StartTimes : TRUE)
Horizon == FirstWindow + WindowMs + monPollIntervalMs

\* the venue lists the first window only: the answers for the four slugs of
\* getCurrentMarket() at time t
ListedOnly(t) ==
    {[k \in 1..4 |->
        IF listed /\ Base(t) + (k - 2) * WindowMs = FirstWindow
        THEN [kind |-> "market", up |-> 50, tokens |-> 2, endDate |-> FirstWindow + WindowMs]
        ELSE [kind |-> "empty", up |-> 0, tokens |-> 0, endDate |-> 0]] : listed \in BOOLEAN}

\* the loop of runLiveMonitor() running for ever, on a venue that lists the
\* first window only and shows bids for it while it is open (a resolved
\* market has no book).  The awaits of a poll() take time.  Once the window
\* has ended nothing poll() reads depends on the clock or on tick, which are
\* not followed beyond the horizon.
MonitorLoop ==
    /\ \E url \in monTried(mon) \cup {0}, resp \in ListedOnly(now), lat \in MonLatencies :
          \E price \in IF url = 0 THEN {0} ELSE {10000, 10003},
             bids \in [1..Len(mon.openTrades) + 1 ->
                          IF now < FirstWindow + WindowMs THEN LiveBids \cup {0} ELSE {0}] :
              /\ mon' = [poll(mon, url, price, resp, DefaultAsk, bids, now)
                            EXCEPT !.tick = IF @ > MaxPolls THEN MaxPolls ELSE @]
              /\ now' = IF now + monPollIntervalMs + lat > Horizon THEN Horizon
                        ELSE now + monPollIntervalMs + lat
    /\ UNCHANGED <<botVars, steps, sim, wait, position, windows, dash, fed>>

\* while (true) { await poll(); await sleep }: the loop never stops
SpecMonitorLive == Init /\ [][MonitorLoop]_vars /\ WF_vars(MonitorLoop)

----------------------------------------------------------------------------
(* simulate() of scripts/sim-real-orderbook.js                              *)

\* what decideFn returns: entry 0 stands for a decision without an entry
SimDecisions ==
    {[side |-> sd, action |-> a, entry |-> e] :
        sd \in {"UP", "DOWN"}, a \in {"BUY_AND_HOLD", "BUY_BOTH"}, e \in SimEntries \cup {0}}

\* the trade simulate() pushes for a decision on a market with this outcome;
\* pnl in cents as the fraction num / den
simTrade(decision, outcome) ==
    LET entryPrice == IF decision.entry # 0 THEN decision.entry ELSE simAsk
        spent == simTradeSize * 100
        won == decision.side = outcome
        \* profit = payout - spent, as a fraction over entryPrice
        profit == IF decision.action = "BUY_AND_HOLD"
                  THEN spent * 100 - spent * entryPrice
                  ELSE (spent \div 2) * 100 - spent * entryPrice
        fee == IF decision.action = "BUY_AND_HOLD" \/ profit > 0 THEN simFeePct ELSE 0
    IN  [side |-> decision.side, action |-> decision.action, entryPrice |-> entryPrice,
         spent |-> spent, outcome |-> outcome,
         won |-> won \/ decision.action = "BUY_BOTH",
         pnl |-> IF decision.action = "BUY_AND_HOLD" /\ ~won
                 THEN [num |-> -(spent * entryPrice * 100), den |-> entryPrice * 100]
                 ELSE [num |-> profit * (100 - fee), den |-> entryPrice * 100],
         exitPrice |-> IF decision.action = "BUY_BOTH" THEN entryPrice
                       ELSE IF won THEN 100 ELSE 0]

\* one turn of the loop of simulate(): skip the market, or trade it
Simulate ==
    /\ sim.i < MaxMarkets
    /\ \E skip \in BOOLEAN, decision \in SimDecisions, outcome \in {"UP", "DOWN"} :
          sim' = [i |-> sim.i + 1,
                  trades |-> IF skip THEN sim.trades
                             ELSE Append(sim.trades, simTrade(decision, outcome))]
    /\ UNCHANGED <<now, botVars, steps, mon, wait, position, windows, dash, fed>>

----------------------------------------------------------------------------
(* The exit state machine of the strategy (spec section 4, "Exit state      *)
(* machine"): the strategy's code is not part of the sources at hand, the   *)
(* rules are those of the specification, applied in order, first match wins *)

\* gain% of a bid against an entry, compared with a percentage
GainAtLeast(bid, entry, pct) == (bid - entry) * 100 >= pct * entry
GainAtMost(bid, entry, pct) == (bid - entry) * 100 <= pct * entry

\* pnl in hundredths of a cent: the fee is taken from gains only
posPnl(shares, entry, exit) ==
    LET gross == shares * (exit - entry)
    IN  IF gross > 0 THEN gross * (100 - FEE_RATE_PCT) ELSE gross * 100

posSell(pos, bid, status) ==
    [pos EXCEPT !.status = status, !.pnl = posPnl(pos.shares, pos.entry, bid)]

\* one exit evaluation at best bid: peak_gain_pct is updated first, then the
\* first matching rule applies
exitEval(pos0, bid) ==
    LET pos == [pos0 EXCEPT !.bid = bid, !.evals = @ + 1,
                            !.peak = IF bid > @ THEN bid ELSE @]
    IN  IF GainAtMost(bid, pos.entry, HARD_STOP_PCT)
        THEN posSell(pos, bid, "hard_stop")
        ELSE IF pos.mode = "protection" /\ GainAtLeast(bid, pos.entry, PROTECTION_EXIT_PCT)
        THEN posSell(pos, bid, "protection")
        ELSE IF pos.mode # "protection" /\ GainAtMost(bid, pos.entry, DRAWDOWN_TRIGGER_PCT)
        THEN [pos EXCEPT !.mode = "protection"]
        ELSE IF pos.mode = "moonbag" /\ GainAtMost(bid, pos.entry, PROFIT_TARGET_PCT)
        THEN posSell(pos, bid, "moonbag_trail")
        ELSE IF pos.mode # "moonbag" /\ GainAtLeast(pos.peak, pos.entry, MOONBAG_PCT)
        THEN [pos EXCEPT !.mode = "moonbag"]
        ELSE IF pos.mode # "moonbag" /\ GainAtLeast(bid, pos.entry, PROFIT_TARGET_PCT)
        THEN posSell(pos, bid, "take_profit")
        ELSE pos

\* the buy confirms: Position{mode = normal, peak_gain_pct = 0}
OpenPosition ==
    /\ position.mode = "none"
    /\ \E entry \in PosEntries :
          position' = [mode |-> "normal", entry |-> entry,
                       shares |-> (MAX_POSITION_USDC * 100) \div entry,
                       bid |-> entry, peak |-> entry, status |-> "", pnl |-> 0, evals |-> 0]
    /\ UNCHANGED <<now, botVars, steps, mon, sim, wait, windows, dash, fed>>

PositionOpen == position.mode # "none" /\ position.status = ""

\* every exit_eval_interval and on every relevant tick
ExitEval ==
    /\ PositionOpen
    /\ position.evals < MaxEvals
    /\ \E bid \in PosBids : position' = exitEval(position, bid)
    /\ UNCHANGED <<now, botVars, steps, mon, sim, wait, windows, dash, fed>>

\* the window resolves: the payout is 1.0 or 0.0
PositionResolves ==
    /\ PositionOpen
    /\ \E won \in BOOLEAN :
          position' = posSell(position, IF won THEN 100 ELSE 0,
                              IF won THEN "resolved_win" ELSE "resolved_loss")
    /\ UNCHANGED <<now, botVars, steps, mon, sim, wait, windows, dash, fed>>

NextExit == OpenPosition \/ ExitEval \/ PositionResolves

SpecExit == Init /\ [][NextExit]_vars

----------------------------------------------------------------------------
(* The market registry and the window tracker of the strategy (spec         *)
(* sections 3, 4.B and 4.C).  A window is [slug, end_time, open_price,      *)
(* signal_fired], open_price 0 for null.                                   *)

\* the windows the venue may list: the one the run starts in and the next
WinSlugs == {FirstWindow, FirstWindow + WindowMs}

\* retained by a discovery at time t
Retained(slug, t) ==
    slug + WindowMs >= t - RESOLUTION_GRACE_MS /\ slug + WindowMs <= t + LOOKAHEAD_MS

\* a discovery that resets the latch of the windows it finds again
RegistryRefresh_Reset ==
    /\ \E listed \in SUBSET WinSlugs :
          LET found == {sl \in listed : Retained(sl, now)}
              kept == {w \in windows.reg : now <= w.end_time + RESOLUTION_GRACE_MS}
              new == {[slug |-> sl, end_time |-> sl + WindowMs, open_price |-> 0,
                       signal_fired |-> FALSE] : sl \in found}
          IN  windows' = [windows EXCEPT !.reg = {w \in kept : w.slug \notin found} \cup new]
    /\ UNCHANGED <<now, botVars, steps, mon, sim, wait, position, dash, fed>>

\* a discovery round: windows found for the first time are added unlatched,
\* those already held keep open_price and signal_fired, those past
\* end_time + grace are evicted
RegistryRefresh ==
    /\ \E listed \in SUBSET WinSlugs :
          LET found == {sl \in listed : Retained(sl, now)}
              kept == {w \in windows.reg : now <= w.end_time + RESOLUTION_GRACE_MS}
              new == {[slug |-> sl, end_time |-> sl + WindowMs, open_price |-> 0,
                       signal_fired |-> FALSE] :
                         sl \in {x \in found : \A w \in kept : w.slug # x}}
          IN  windows' = [windows EXCEPT !.reg = kept \cup new]
    /\ UNCHANGED <<now, botVars, steps, mon, sim, wait, position, dash, fed>>

\* the open-price latch: a tick received once settle_seconds of the window
\* have passed pins the open price of a window that has none
latch(w, price, t) ==
    IF w.open_price = 0 /\ t - (w.end_time - WindowMs) >= SETTLE_MS
    THEN [w EXCEPT !.open_price = price]
    ELSE w

\* the tracker consumes a tick
TrackerTick ==
    /\ \E price \in Prices :
          windows' = [reg |-> {latch(w, price, now) : w \in windows.reg},
                      pinned |-> windows.pinned \cup
                                   {<<w.slug, price>> : w \in {x \in windows.reg :
                                                                latch(x, price, now) # x}}]
    /\ UNCHANGED <<now, botVars, steps, mon, sim, wait, position, dash, fed>>

\* time passes between the runs of the registry and the ticks
WindowClock ==
    /\ steps < WinSteps
    /\ \E d \in WinDeltas : now' = now + d
    /\ steps' = steps + 1
    /\ UNCHANGED <<botVars, mon, sim, wait, position, windows, dash, fed>>

NextWindows == RegistryRefresh \/ TrackerTick \/ WindowClock

SpecWindows == Init /\ [][NextWindows]_vars

----------------------------------------------------------------------------
(* The dashboard: the effect of the App component (src/App.js), its socket  *)
(* to the bot and its reconnect timer                                      *)

\* ws.onopen
DashOpen ==
    /\ dash.ws = "connecting"
    /\ dash' = [dash EXCEPT !.ws = "open"]
    /\ UNCHANGED <<now, botVars, steps, mon, sim, wait, position, windows, fed>>

\* ws.onmessage: setState(JSON.parse(e.data))
DashMessage ==
    /\ dash.ws = "open"
    /\ dash' = [dash EXCEPT !.state = TRUE]
    /\ UNCHANGED <<now, botVars, steps, mon, sim, wait, position, windows, fed>>

\* ws.onerror = () => ws.close()
DashError ==
    /\ dash.ws \in {"connecting", "open"}
    /\ dash' = [dash EXCEPT !.ws = "closing"]
    /\ UNCHANGED <<now, botVars, steps, mon, sim, wait, position, windows, fed>>

\* ws.onclose: setConnected(false); setTimeout(connect, 2000).  The event
\* comes after close() was called, or when the server ends the connection
DashClose ==
    /\ dash.ws \in {"connecting", "open", "closing"}
    /\ dash' = [dash EXCEPT !.ws = "closed", !.timer = TRUE]
    /\ UNCHANGED <<now, botVars, steps, mon, sim, wait, position, windows, fed>>

\* the timer fires: connect() opens a socket
DashConnect ==
    /\ dash.timer
    /\ dash.sockets < MaxSockets
    /\ dash' = [dash EXCEPT !.ws = "connecting", !.timer = FALSE, !.sockets = @ + 1]
    /\ UNCHANGED <<now, botVars, steps, mon, sim, wait, position, windows, fed>>

\* the cleanup of the effect: wsRef.current.close(); clearTimeout(timer)
DashUnmount ==
    /\ dash.mounted
    /\ dash' = [dash EXCEPT !.mounted = FALSE, !.timer = FALSE,
                            !.ws = IF @ \in {"connecting", "open"} THEN "closing" ELSE @]
    /\ UNCHANGED <<now, botVars, steps, mon, sim, wait, position, windows, fed>>

NextDash == DashOpen \/ DashMessage \/ DashError \/ DashClose \/ DashConnect \/ DashUnmount

SpecDash == Init /\ [][NextDash]_vars

----------------------------------------------------------------------------
(* The resolution waits of the test scripts: pollResult() and               *)
(* waitForResolution(), each called once by its script's main()             *)

WaitFns == {"pollResult", "waitForResolution"}

waitTimeout(fn) == IF fn = "pollResult" THEN pollResultTimeoutMs ELSE waitForResolutionMaxWaitMs
waitSleep(fn) == IF fn = "pollResult" THEN pollResultSleepMs ELSE waitForResolutionSleepMs

\* the function's test of the outcome price: "UP", "DOWN" or "" (not resolved)
waitOutcome(fn, up) ==
    IF fn = "pollResult"
    THEN IF up > 95 \/ up < 5 THEN (IF up > 50 THEN "UP" ELSE "DOWN") ELSE ""
    ELSE IF up > 90 \/ up < 10 THEN (IF up > 90 THEN "UP" ELSE "DOWN") ELSE ""

\* while (Date.now() - start < timeout): the next turn, or return null
waitLoop(w, t) ==
    IF t - w.start < waitTimeout(w.fn) THEN [w EXCEPT !.pc = "get"]
    ELSE [w EXCEPT !.pc = "", !.result = "null"]

\* main() calls the wait
WaitStart ==
    /\ wait.fn = ""
    /\ \E fn \in WaitFns : wait' = waitLoop([NoWait EXCEPT !.fn = fn, !.start = now], now)
    /\ UNCHANGED <<now, botVars, steps, mon, sim, position, windows, dash, fed>>

\* the market lookup answers m: getMarket() of pollResult throws on a failed
\* request, getMarketBySlug() of waitForResolution returns null
WaitAnswer ==
    /\ wait.pc = "get"
    /\ \E m \in GammaResponses(0, GammaKinds, WaitUps), lat \in WaitLatencies :
          /\ now' = now + lat
          /\ wait' =
               IF m.kind = "error" /\ wait.fn = "pollResult"
               THEN [wait EXCEPT !.pc = "", !.result = "threw"]
               ELSE IF m.kind = "market" /\ waitOutcome(wait.fn, m.up) # ""
               THEN [wait EXCEPT !.pc = "", !.up = m.up, !.result = waitOutcome(wait.fn, m.up)]
               ELSE [wait EXCEPT !.pc = "sleep", !.up = IF m.kind = "market" THEN m.up ELSE -1]
    /\ UNCHANGED <<botVars, steps, mon, sim, position, windows, dash, fed>>

\* await new Promise(r => setTimeout(r, ...)), then the loop's test
WaitSleep ==
    /\ wait.pc = "sleep"
    /\ now' = now + waitSleep(wait.fn)
    /\ wait' = waitLoop(wait, now')
    /\ UNCHANGED <<botVars, steps, mon, sim, position, windows, dash, fed>>

NextWait == WaitStart \/ WaitAnswer \/ WaitSleep

SpecWait == Init /\ [][NextWait]_vars

\* the feed and its reconnection alone: the venue lists no market.  The clock
\* runs on until a pending reconnect timer is due; the timers of Node fire, the
\* socket library emits "close" after close(), and every GET answers
FeedTick ==
    /\ \A due \in reconnectAt : now < due
    /\ Tick(Deltas, IF reconnectAt # {} THEN steps + 1 ELSE FeedSteps, TRUE)

FeedAnswer == GammaAnswer({"empty"}, {})

NextFeed ==
    \/ FeedTick
    \/ WsOpen
    \/ WsMessageOn({10000}, MaxBuf, MaxHandlers, TRUE)
    \/ FeedAnswer
    \/ WsError
    \/ WsClose
    \/ Connect

SpecFeed ==
    /\ Init /\ [][NextFeed]_vars
    /\ WF_vars(FeedTick) /\ WF_vars(FeedAnswer) /\ WF_vars(WsClose) /\ WF_vars(Connect)

\* the handlers of the feed's messages with their market lookups in flight
\* together: a GET may answer after a later one
NextOrder ==
    \/ Tick(Deltas, BuySteps, FALSE)
    \/ WsOpen
    \/ WsMessageOn(Prices, MaxBuf, RaceHandlers, FALSE)
    \/ GammaAnswer({"empty", "market"}, {50})

SpecOrder == Init /\ [][NextOrder]_vars

\* the entry pipeline on a venue that also returns malformed market records
NextMalformed ==
    \/ Tick(Deltas, BuySteps, TRUE)
    \/ WsOpen
    \/ WsMessage(MaxHandlers, TRUE)
    \/ GammaAnswer({"empty", "market"}, {50})
    \/ MalformedAnswer
    \/ BookAnswer(BookAsks)
    \/ OrderAnswer
    \/ SellAnswer

SpecMalformed == Init /\ [][NextMalformed]_vars

\* the resolution poller alone, on a bot that holds OverlapTrades positions of
\* the current window bought live (MAX_OPEN_TRADES raised, or the cap passed by
\* handlers suspended in their orders) and receives no spike: a run of
\* checkOpenTrades() whose lookups time out lasts as long as the interval
InitOverlap ==
    /\ now \in StartTimes
    /\ CONFIG = [privateKey |-> TRUE, holdToResolution |-> TRUE]
    /\ clobClient = setupClobClient(CONFIG)
    /\ btcPrices = <<>>
    /\ lastSpikeTime = 0
    /\ currentMarket = {}
    /\ marketCacheTime = 0
    /\ openTrades = [k \in 1..OverlapTrades |->
                        MakeTrade([dir |-> "UP", slug |-> Base(now)], DefaultAsk,
                                  <<"order", k>>, FALSE)]
    /\ tradeHistory = <<>>
    /\ venueOrders = OverlapTrades
    /\ ws = [state |-> "open", url |-> 0, lastStatusTime |-> 0, conn |-> 1, gotTick |-> FALSE]
    /\ wsIndex = 0
    /\ reconnectAt = {}
    /\ pollAt = now
    /\ handlers = <<>>
    /\ pollers = <<>>
    /\ steps = 0
    /\ mon = MonInit
    /\ sim = SimInit
    /\ wait = NoWait
    /\ position = NoPosition
    /\ windows = NoWindows
    /\ dash = DashInit
    /\ fed = 0

\* the interval's timer fires on time: the clock does not pass a timer that is due
OverlapTick ==
    /\ now + GammaTimeout <= pollAt
    /\ Tick({GammaTimeout}, OverlapSteps, FALSE)

NextOverlap ==
    \/ OverlapTick
    \/ PollFireOn(OverlapPollers)
    \/ PollAnswer

SpecOverlap == InitOverlap /\ [][NextOverlap]_vars

\* A recorded tick stream replayed to the bot: prices and the time of their
\* delivery, from the start of the replay; the venue answers every lookup
\* with an empty list, after any delay its timeout allows
ReplayTicks ==
    <<[price |-> 10000, at |-> 0], [price |-> 10000, at |-> 0], [price |-> 10010, at |-> 2000]>>

ReplayStart == CHOOSE t \in StartTimes : TRUE

\* ws.on("message") for the next tick of the recorded stream, at its time
ReplayMessage ==
    /\ ws.state = "open"
    /\ fed < Len(ReplayTicks)
    /\ now = ReplayStart + ReplayTicks[fed + 1].at
    /\ Commit(onMessage(State, ReplayTicks[fed + 1].price, now), 0)
    /\ fed' = fed + 1
    /\ UNCHANGED <<now, CONFIG, clobClient, tradeHistory, wsIndex, reconnectAt, pollAt,
                   pollers, steps, mon, sim, wait, position, windows, dash>>

\* time passes once the socket is open and the ticks due have been delivered
ReplayTick ==
    /\ ws.state = "open"
    /\ fed < Len(ReplayTicks) => now < ReplayStart + ReplayTicks[fed + 1].at
    /\ Tick({2000}, ReplaySteps, FALSE)

NextReplay ==
    \/ ReplayTick
    \/ WsOpen
    \/ ReplayMessage
    \/ GammaAnswer({"empty"}, {})

SpecReplay == Init /\ [][NextReplay]_vars

\* the whole bot
Next ==
    \/ Tick(Deltas, MaxSteps, FALSE)
    \/ WsOpen
    \/ WsMessage(MaxHandlers, FALSE)
    \/ GammaAnswer(GammaKinds, UpPrices)
    \/ BookAnswer(BookAsks)
    \/ OrderAnswer
    \/ SellAnswer
    \/ WsError
    \/ WsClose
    \/ Connect
    \/ PollFire
    \/ PollAnswer

Spec == Init /\ [][Next]_vars

\* the entry pipeline over a longer run, with overlapping handlers: live trading
\* with the default HOLD_TO_RESOLUTION, the feed stays connected, every GET of the
\* venue answers at once with an unresolved market, and no market resolves
InitRace == Init /\ CONFIG = [privateKey |-> TRUE, holdToResolution |-> TRUE]

NextRace ==
    \/ Tick(Deltas, RaceSteps, TRUE)
    \/ WsOpen
    \/ WsMessage(RaceHandlers, TRUE)
    \/ GammaAnswer({"market"}, {50})
    \/ BookAnswer(BookAsks)
    \/ OrderAnswer

SpecRace == InitRace /\ [][NextRace]_vars

\* the entry pipeline up to the first buy, over every best ask of the book
NextBuy ==
    \/ Tick(Deltas, BuySteps, TRUE)
    \/ WsOpen
    \/ WsMessage(MaxHandlers, TRUE)
    \/ GammaAnswer({"market"}, {50})
    \/ BookAnswer(1..MaxAsk)
    \/ OrderAnswer
    \/ SellAnswer

SpecBuy == Init /\ [][NextBuy]_vars

----------------------------------------------------------------------------
(* Properties                                                               *)

RECURSIVE SumSpent(_)
SumSpent(ot) == IF ot = <<>> THEN 0 ELSE Head(ot).spent + SumSpent(Tail(ot))

\* the window slugs the runs can meet
Slugs == {Base(t) + k * WindowMs : t \in StartTimes, k \in -1..4}

\* buys of window W that are placed: orders in flight and positions held
BuysOf(hs, ot, W) ==
    Len(SelectSeq(hs, LAMBDA h : h.pc = "order" /\ h.slug = W))
        + Len(SelectSeq(ot, LAMBDA tr : tr.slug = W))

\* this step places a buy for window W (an accepted order becoming a position
\* leaves the count as it is)
BuyPlaced(W) == BuysOf(handlers', openTrades', W) > BuysOf(handlers, openTrades, W)

\* signals of window W that reached placeBuyOrder
SignalsOf(hs, W) == Len(SelectSeq(hs, LAMBDA h : h.pc = "book" /\ h.slug = W))

\* C1: the number of open positions never exceeds maxOpenTrades, whatever the
\* interleaving of the message handlers and the poller
C1_OpenTradesWithinMax == Len(openTrades) <= maxOpenTrades

\* C2: no two open positions are on the same window slug
C2_OnePositionPerSlug ==
    \A i, j \in 1..Len(openTrades) : openTrades[i].slug = openTrades[j].slug => i = j

\* C3: a buy is placed only if more than 30 s of its window remain at the
\* moment of placement
C3_BuyOnlyWithTimeLeft ==
    [][\A W \in Slugs : BuyPlaced(W) => W + WindowMs - now' > MinSecsLeftMs]_vars

\* C6: a window sees at most one entry signal: once a signal of window W has
\* reached the buy (its book read, its order or its position is there, or its
\* position is settled), no further signal of W does
C6_OneSignalPerWindow ==
    [][\A W \in Slugs :
          SignalsOf(handlers', W) > SignalsOf(handlers, W)
              => /\ SignalsOf(handlers, W) = 0
                 /\ BuysOf(handlers, openTrades, W) = 0
                 /\ \A i \in 1..Len(tradeHistory) : tradeHistory[i].trade.slug # W]_vars

\* C7: the money committed to open positions never exceeds
\* tradeSize * maxOpenTrades (in cents)
C7_ExposureWithinCap == SumSpent(openTrades) <= tradeSize * 100 * maxOpenTrades

\* the failed reads of the order book: no answer, or a book without asks
FailedBooks == BookResponses({})

\* C9: a signal whose book read fails is dropped: the handler ends there,
\* sends no order and opens no position
C9_FailedBookDropsSignal ==
    \A i \in 1..Len(handlers) : \A r \in FailedBooks :
        handlers[i].pc = "book"
            => LET out == placeBuyOrder(State, handlers[i], r, now)
               IN  out.h = {} /\ out.s.openTrades = openTrades

\* the feed is live: the socket is open and has delivered a tick
FeedLive == ws.state = "open" /\ ws.gotTick

\* C10: no buy is placed while the feed is not live, also by a handler that
\* started before the socket closed
C10_NoBuyWhileFeedDown ==
    [][(\E W \in Slugs : BuyPlaced(W)) => FeedLive']_vars

\* trades the monitor has opened so far, open or closed
MonTrades(m) == Len(m.openTrades) + Len(m.tradeLog)

\* the last poll() of the monitor had a spike, a market, room for a trade and
\* a best ask
MonSignal(m) == m.seen.isSpike /\ m.seen.market # {} /\ m.seen.room /\ m.seen.ask # 0

\* C4: the live monitor's poll rejects an entry exactly when the best ask is
\* above 0.60; an ask of exactly 0.60 is accepted (as placeBuyOrder does)
C4_MonitorEntryCapInclusive ==
    [][mon'.tick = mon.tick + 1 /\ MonSignal(mon')
          => (MonTrades(mon') = MonTrades(mon) + 1 <=> mon'.seen.ask <= MaxEntryAsk)]_vars

\* C5: without a private key no order is ever sent to the venue, for a buy or
\* for a sell, and every position is a simulated one with a synthetic id
C5_DryRunSendsNoOrder ==
    ~clobClient =>
        /\ venueOrders = 0
        /\ \A i \in 1..Len(handlers) : handlers[i].pc \notin {"order", "sell"}
        /\ \A i \in 1..Len(openTrades) :
               openTrades[i].dryRun /\ openTrades[i].orderId[1] = "dry-run"

\* a simulated buy is held and its take-profit sell was due
C5_Witness ==
    /\ ~clobClient /\ ~CONFIG.holdToResolution
    /\ Len(openTrades) = 1 /\ openTrades[1].dryRun
    /\ handlers = <<>>

\* C8: every buy has shares = floor(tradeSize / ask) and costs shares * ask, at
\* most tradeSize; at an ask of 51 cents that is 196 shares for 99.96
C8_SharesFloorOfBudget ==
    \A i \in 1..Len(openTrades) :
        LET tr == openTrades[i]
        IN  /\ tr.shares * tr.entry <= tradeSize * 100
            /\ (tr.shares + 1) * tr.entry > tradeSize * 100
            /\ tr.spent = tr.shares * tr.entry
            /\ tr.spent <= tradeSize * 100
            /\ tr.entry = 51 => tr.shares = 196 /\ tr.spent = 9996

\* a buy at 51 cents, where the budget does not divide evenly
C8_Witness ==
    \E i \in 1..Len(openTrades) :
        openTrades[i].entry = 51 /\ openTrades[i].shares = 196 /\ openTrades[i].spent < tradeSize * 100

----------------------------------------------------------------------------
(* The bot, the live monitor and the simulation are separate programs: a    *)
(* behaviour of SpecPnl runs one of them, up to the closing of its trades.  *)

BotIdle == ws.state = "connecting" /\ steps = 0

NextSettle ==
    \/ Tick(Deltas, SettleSteps, TRUE)
    \/ WsOpen
    \/ WsMessage(MaxHandlers, TRUE)
    \/ GammaAnswer({"market"}, {50})
    \/ BookAnswer(SettleAsks)
    \/ OrderAnswer
    \/ SellAnswer
    \/ PollFire
    \/ PollAnswer

NextPnl ==
    \/ mon = MonInit /\ sim = SimInit /\ NextSettle
    \/ BotIdle /\ sim = SimInit /\ MonitorPollOn(MonPrices, ListedNow, MonAsks, MonBids, MaxPolls)
    \/ BotIdle /\ mon = MonInit /\ Simulate

SpecPnl == Init /\ [][NextPnl]_vars

\* the feed and the spike detector alone: the venue lists no market for the bot
NextSpikeBot ==
    \/ Tick(Deltas, SpikeSteps, TRUE)
    \/ WsOpen
    \/ WsMessageOn(SpikePrices, SpikeBuf, MaxHandlers, TRUE)
    \/ GammaAnswer({"empty"}, {})

NextSpike ==
    \/ mon = MonInit /\ NextSpikeBot
    \/ BotIdle /\ MonitorPollOn(SpikeMonPrices, ListedNow, {DefaultAsk}, {}, MaxPolls)

SpecSpike == Init /\ [][NextSpike]_vars

\* a pnl given as the fraction num / den (cents) is the net of the gross
\* g / entry (cents): 98 % of it when positive, all of it otherwise
NetOf(pnl, g, entry) ==
    pnl.den = entry * 100 /\ pnl.num = IF g > 0 THEN g * 98 ELSE g * 100

\* C11: the pnl of every closed trade is gross * 0.98 when gross > 0 and gross
\* otherwise, with gross = shares * (exit - entry) and exit the sell price, or
\* 1.0 / 0.0 at resolution: in the bot's tradeHistory, in the monitor's
\* tradeLog and in the one-sided trades of simulate()
C11_PnlFeeOnProfitOnly ==
    /\ \A i \in 1..Len(tradeHistory) :
          LET c == tradeHistory[i]
              gross == c.trade.shares * ((IF c.won THEN 100 ELSE 0) - c.trade.entry)
          IN  c.pnl = IF gross > 0 THEN gross * 98 ELSE gross * 100
    /\ \A i \in 1..Len(mon.tradeLog) :
          LET c == mon.tradeLog[i]
          IN  NetOf(c.pnl, c.trade.spent * (c.exit - c.trade.entry), c.trade.entry)
    /\ \A i \in 1..Len(sim.trades) :
          LET c == sim.trades[i]
          IN  c.action = "BUY_AND_HOLD"
                => /\ c.exitPrice = IF c.side = c.outcome THEN 100 ELSE 0
                   /\ NetOf(c.pnl, c.spent * (c.exitPrice - c.entryPrice), c.entryPrice)

\* the bot has settled a winning trade
C11_Witness ==
    \E i \in 1..Len(tradeHistory) : tradeHistory[i].won /\ tradeHistory[i].pnl > 0

\* C12: a closed trade has pnl > 0 exactly when it closed as take_profit,
\* moonbag_trail or resolved_win, whatever prices were observed: in the bot's
\* tradeHistory, in the monitor's tradeLog and for the strategy's position
C12_PnlSignMatchesStatus ==
    /\ \A i \in 1..Len(tradeHistory) : tradeHistory[i].pnl > 0 <=> tradeHistory[i].won
    /\ \A i \in 1..Len(mon.tradeLog) :
          mon.tradeLog[i].pnl.num > 0 <=> mon.tradeLog[i].exitType = "TAKE_PROFIT"
    /\ position.status # ""
          => (position.pnl > 0
                <=> position.status \in {"take_profit", "moonbag_trail", "resolved_win"})

\* C15: a position that has entered moonbag mode never enters protection mode,
\* and one that has entered protection mode never enters moonbag mode
C15_MoonbagProtectionExclusive ==
    [][/\ position.mode = "moonbag" => position'.mode # "protection"
       /\ position.mode = "protection" => position'.mode # "moonbag"]_vars

\* a position on window W is open, in the bot or in the monitor
OpenOn(W) ==
    \/ \E i \in 1..Len(openTrades) : openTrades[i].slug = W
    \/ \E i \in 1..Len(mon.openTrades) : mon.openTrades[i].slug = W

\* C13: a position still open after its window has ended (and resolved) is
\* eventually closed
C13_OpenEventuallyClosed ==
    \A W \in Slugs : (OpenOn(W) /\ now > W + WindowMs) ~> ~OpenOn(W)

\* C14: a resolution wait treats the market as resolved exactly when the Up
\* price it read is >= 0.95 (outcome Up) or <= 0.05 (outcome Down), the same
\* for every wait
C14_ResolutionThreshold ==
    wait.up # -1 =>
        /\ wait.result = "UP" <=> wait.up >= 95
        /\ wait.result = "DOWN" <=> wait.up <= 5

\* the gain of a position entered at entry, at best bid bid, against pct percent
GainPctOf(entry, bid) == [atLeast |-> [pct \in -100..100 |-> (bid - entry) * 100 >= pct * entry],
                          is |-> [pct \in -100..100 |-> (bid - entry) * 100 = pct * entry]]

\* the records the last poll pushed to tradeLog
NewLog(m0, m1) == SubSeq(m1.tradeLog, Len(m0.tradeLog) + 1, Len(m1.tradeLog))

\* C16: a position whose gain is exactly the stop-loss threshold at an
\* evaluation is sold at that evaluation, as a stop loss
C16_StopAtThreshold ==
    \A i \in 1..Len(mon.seen.evals) :
        LET ev == mon.seen.evals[i]
        IN  (ev.bid # 0 /\ GainPctOf(ev.trade.entry, ev.bid).is[monStopLossPct])
            => \E j \in 1..Len(mon.tradeLog) :
                  /\ mon.tradeLog[j].trade = ev.trade
                  /\ mon.tradeLog[j].exit = ev.bid
                  /\ mon.tradeLog[j].exitType = "STOP_LOSS"

\* C17: a position is not sold for a profit while its gain is below the take
\* profit target, and at the first evaluation where the gain reaches the
\* target it is sold as a take profit
C17_TakeProfitAtTarget ==
    [][LET evs == mon'.seen.evals
           new == NewLog(mon, mon')
           AtTarget(i) == evs[i].bid # 0 /\ GainPctOf(evs[i].trade.entry, evs[i].bid).atLeast[monTakeProfitPct]
       IN  /\ \A j \in 1..Len(new) :
                (new[j].exitType = "TAKE_PROFIT" \/ new[j].pnl.num > 0)
                => GainPctOf(new[j].trade.entry, new[j].exit).atLeast[monTakeProfitPct]
           /\ \A i \in 1..Len(evs) :
                AtTarget(i) => \E j \in 1..Len(new) :
                                  /\ new[j].trade = evs[i].trade
                                  /\ new[j].exit = evs[i].bid
                                  /\ new[j].exitType = "TAKE_PROFIT"
           /\ Cardinality({i \in 1..Len(evs) : AtTarget(i)})
                = Cardinality({j \in 1..Len(new) : new[j].exitType = "TAKE_PROFIT"})
           /\ Len(evs) > 0 => Len(mon'.openTrades) + Len(new) = Len(evs)]_vars

\* a position is sold at exactly +10 % in a poll that leaves another, 8 % up, open
C17_Witness ==
    /\ \E j \in 1..Len(mon.tradeLog) :
          /\ mon.tradeLog[j].exitType = "TAKE_PROFIT"
          /\ GainPctOf(mon.tradeLog[j].trade.entry, mon.tradeLog[j].exit).is[monTakeProfitPct]
    /\ \E i \in 1..Len(mon.seen.evals) :
          /\ mon.seen.evals[i].bid = 54
          /\ mon.seen.evals[i].trade.entry = 50
          /\ \E k \in 1..Len(mon.openTrades) : mon.openTrades[k] = mon.seen.evals[i].trade

\* C18: with holdToResolution off, a position whose loss reaches stopLossPct
\* percent of what was spent is sold before the market resolves, so the live
\* bot settles no position at resolution with such a loss
C18_StopLossBeforeResolution ==
    (clobClient /\ ~CONFIG.holdToResolution)
    => \A i \in 1..Len(tradeHistory) :
          ~tradeHistory[i].trade.dryRun
          => -tradeHistory[i].pnl * 100 < stopLossPct * tradeHistory[i].trade.spent * 100

\* C19: two consecutive spike signals are at least 10 s apart
C19_SignalsDebounced ==
    [][lastSpikeTime' # lastSpikeTime
       => lastSpikeTime' - lastSpikeTime >= DebounceMs]_vars

\* a tick that passes the threshold test arrives within 10 s of the last
\* signal and gives none
C19_Witness ==
    /\ Len(btcPrices) > 0
    /\ lastSpikeTime > 0
    /\ now > lastSpikeTime /\ now - lastSpikeTime < DebounceMs
    /\ LET n == Len(btcPrices)
       IN  /\ btcPrices[n].time = now
           /\ detectSpike(SubSeq(btcPrices, 1, n - 1), 0, btcPrices[n].price, now).spike # {}

\* the price detectSpike() compares the latest with: the first of the buffer
\* between 4 s and 1.5 s old
ReferenceOf(bt, t) == SelectSeq(bt, LAMBDA p : p.time > t - OlderFromMs /\ p.time < t - OlderToMs)

\* C20: a spike is signalled only when the latest price differs from the
\* reference price by at least the threshold, and its direction is UP when the
\* latest price is above the reference and DOWN otherwise
C20_SpikeThresholdAndDirection ==
    [][/\ lastSpikeTime' # lastSpikeTime =>
            LET latest == btcPrices'[Len(btcPrices')].price
                ref == ReferenceOf(btcPrices', now')
                dir == IF latest > ref[1].price THEN "UP" ELSE "DOWN"
                signalled == {i \in 1..Len(handlers') :
                                 /\ handlers'[i].dir # "-"
                                 /\ i > Len(handlers) \/ handlers[i].dir = "-"}
            IN  /\ Len(ref) > 0
                /\ Abs(latest - ref[1].price) * 10000 >= spikeThresholdBp * ref[1].price
                /\ signalled # {}
                /\ \A i \in signalled : handlers'[i].dir = dir
       /\ (mon' # mon /\ mon'.seen.isSpike) =>
            LET evs == mon'.seen.evals
            IN  /\ Abs(mon'.lastPrice - mon.lastPrice) * 10000 >= monSpikeThresholdBp * mon.lastPrice
                /\ Len(evs) > Len(mon.openTrades)
                   => evs[Len(evs)].trade.direction
                        = IF mon'.lastPrice > mon.lastPrice THEN "UP" ELSE "DOWN"]_vars

\* a drop from 10011 to 10000, 0.11 %, has just been signalled as DOWN
C20_Witness ==
    /\ lastSpikeTime = now
    /\ Len(ReferenceOf(btcPrices, now)) > 0
    /\ ReferenceOf(btcPrices, now)[1].price = 10011
    /\ btcPrices[Len(btcPrices)].price = 10000
    /\ \E i \in 1..Len(handlers) : handlers[i].dir = "DOWN"

\* C22: after every close or error of the socket a new connection attempt is
\* eventually made, and a closed socket always has its reconnect pending
C22_ReconnectAfterClose ==
    /\ [](ws.state = "closed" => reconnectAt # {})
    /\ \A c \in 0..MaxDisconnects :
          (ws.conn = c /\ ws.state \in {"closing", "closed"})
             ~> (ws.conn = c + 1 /\ ws.state = "connecting")

\* connect() has run again after a close
C22_Witness == ws.conn = 1 /\ ws.state = "connecting" /\ reconnectAt = {}

\* C23: after every error or close the next connection attempt goes to the
\* next endpoint of the list, never to the one that just failed or closed
C23_NextEndpointRoundRobin ==
    [][ws'.conn # ws.conn => ws'.url = (ws.url + 1) % NumUrls]_vars

\* the lookups of a market that fail or return nothing
FailedLookups == GammaResponses(0, {"error", "empty"}, {})

\* C25: a failed or empty market lookup during resolution polling leaves the
\* open trades and the history as they are, the run goes on to the trades
\* below, and the next run of the poller starts from the last open trade again
C25_FailedLookupKeepsTrade ==
    /\ [](\A k \in 1..Len(pollers) : \A m \in FailedLookups :
            LET out == pollStep(openTrades, tradeHistory, pollers[k], m, now)
            IN  /\ out.openTrades = openTrades
                /\ out.tradeHistory = tradeHistory
                /\ out.next = pollFrom(openTrades, pollers[k].i - 1, now))
    /\ [][(pollAt' # pollAt /\ openTrades # <<>>)
            => /\ Len(pollers') = Len(pollers) + 1
               /\ pollers'[Len(pollers')].trade = openTrades[Len(openTrades)]]_vars

\* a run of the poller has ended and left the trade open
C25_Witness ==
    /\ \E t \in StartTimes : pollAt = t + 2 * PollEveryMs
    /\ pollers = <<>>
    /\ openTrades # <<>> /\ tradeHistory = <<>>

\* C26: a resolution wait ends as Up, Down, or null once the timeout has
\* elapsed; a lookup that fails or returns nothing leads to another poll and
\* no exception leaves the wait
C26_WaitEndsUpDownNull ==
    /\ wait.result \in {"", "UP", "DOWN", "null"}
    /\ wait.result = "null" => now - wait.start >= waitTimeout(wait.fn)

\* handler i, suspended in the lookup of the status update, goes on to
\* detectSpike() in this step and pushes its price
PushesAfterStatus(i) ==
    /\ handlers[i].pc = "status"
    /\ btcPrices' # btcPrices
    /\ btcPrices'[Len(btcPrices')].price = handlers[i].price
    /\ \/ handlers' = RemoveAt(handlers, i)
       \/ Len(handlers') = Len(handlers) /\ handlers'[i].pc # "status"

\* C29: prices enter the rolling buffer in the order the feed delivered them:
\* no handler pushes its price while the handler of an earlier message, with
\* another price, still awaits the lookup of its status update
C29_TicksInDeliveryOrder ==
    [][\A i \in 1..Len(handlers) : \A j \in 1..(i - 1) :
          ~(/\ handlers[j].pc = "status"
            /\ handlers[j].price # handlers[i].price
            /\ handlers'[j] = handlers[j]
            /\ PushesAfterStatus(i))]_vars

\* C24: once a window's open price has been latched it never changes: every
\* window has had at most one open price pinned, and the registry holds it
C24_OpenPriceLatchedOnce ==
    /\ \A a \in windows.pinned : \A b \in windows.pinned : a[1] = b[1] => a[2] = b[2]
    /\ \A w \in windows.reg : w.open_price # 0 => <<w.slug, w.open_price>> \in windows.pinned

\* a window latched during its five minutes is still held, with its open
\* price, after it has ended and a discovery has run
C24_Witness ==
    \E w \in windows.reg :
        /\ w.open_price # 0
        /\ now > w.end_time
        /\ \E v \in windows.reg : v.slug # w.slug

\* C30: once the dashboard component has unmounted, no socket is opened and
\* no reconnect timer is pending
C30_NoReconnectAfterUnmount ==
    [][~dash.mounted => (dash'.sockets = dash.sockets /\ ~dash'.timer)]_vars

\* C27: a market record with a required field missing or unparsable is not
\* tradable: findActiveMarket() never selects it, and the handler it answers
\* does not end on an exception before its tick has been evaluated
C27_MalformedMarketNotTradable ==
    /\ [](\A m \in currentMarket : m.question)
    /\ [][\A i \in 1..Len(handlers) :
            (handlers[i].pc = "status" /\ handlers' = RemoveAt(handlers, i))
            => (btcPrices' # <<>> /\ btcPrices'[Len(btcPrices')].time = now)]_vars

\* the trades bought on the venue that are open, and those that are settled
OpenIds == {openTrades[i].orderId : i \in 1..Len(openTrades)}
SettledIds == {tradeHistory[j].trade.orderId : j \in 1..Len(tradeHistory)}

\* C28: under every interleaving of handlers and resolution polls, overlapping
\* runs of the poller included, every trade bought is in exactly one of
\* openTrades and tradeHistory: never dropped, never in both, and settled at
\* most once
C28_TradeInExactlyOneList ==
    /\ \A k \in 1..venueOrders : <<"order", k>> \in OpenIds \cup SettledIds
    /\ OpenIds \cap SettledIds = {}
    /\ Cardinality(OpenIds) = Len(openTrades)
    /\ Cardinality(SettledIds) = Len(tradeHistory)

\* the rolling window and the debounce stamp after the first k ticks of the
\* recorded stream, each evaluated by detectSpike() at its delivery
RECURSIVE Replayed(_)
Replayed(k) ==
    IF k = 0 THEN [bt |-> <<>>, lst |-> 0]
    ELSE LET r == Replayed(k - 1)
             d == detectSpike(r.bt, r.lst, ReplayTicks[k].price,
                              ReplayStart + ReplayTicks[k].at)
         IN  [bt |-> d.bt, lst |-> d.lst]

\* the whole stream has been delivered and every handler has returned
ReplayDone == fed = Len(ReplayTicks) /\ handlers = <<>>

\* C21: two replays of the same tick stream, with the same configuration and
\* the same venue responses, give the same signals and the same positions:
\* every replay ends with the signal of the replay whose lookups answer at
\* once, and with its positions (none, the venue lists no market)
C21_ReplayDeterministic ==
    ReplayDone => /\ lastSpikeTime = Replayed(Len(ReplayTicks)).lst
                  /\ openTrades = <<>>
====
